---- MODULE Spec2Model ----
(***************************************************************************)
(* Model of main_denoising.py: the batch loop of main_denoising, the       *)
(* chunked pipeline of denoise_wav, and the Process subclass that carries  *)
(* the outcome of decode_model from the child process to the parent.       *)
(***************************************************************************)
EXTENDS Integers, Sequences, FiniteSets, TLC

\* ------------------------------------------------------------------------
\* Program constants (main_denoising.py:78-83)
\* ------------------------------------------------------------------------
SR == 16000
NUM_CHANNELS == 1
BITDEPTH == 16
WL == 512
WL2 == WL \div 2

\* ------------------------------------------------------------------------
\* Bounds of the model
\* ------------------------------------------------------------------------
\* longest list of input files
MaxFiles == 2
\* number of message units the pipe of a Process buffers without a reader
PipeCapacity == 2

\* ------------------------------------------------------------------------
\* Auxiliary arithmetic
\* ------------------------------------------------------------------------
Abs(x) == IF x >= 0 THEN x ELSE -x

Min(a, b) == IF a <= b THEN a ELSE b

\* float -> int conversion (int(), ndarray.astype(int)): truncation toward 0
TruncDiv(a, b) == IF a >= 0 THEN a \div b ELSE -((-a) \div b)

\* math.ceil(a / b) for a >= 0, b > 0
CeilDiv(a, b) == (a + b - 1) \div b

\* max(abs(s)) of a non-empty sequence
SeqMaxAbs(s) ==
    LET mags == {Abs(s[j]) : j \in 1..Len(s)}
    IN CHOOSE m \in mags : \A n \in mags : n <= m

\* ------------------------------------------------------------------------
\* Paths: a path is <<directory, file name>>
\* ------------------------------------------------------------------------
basename(path) == path[2]

join(dir, bn) == <<dir, bn>>

\* ------------------------------------------------------------------------
\* The files on disk before the run.  A file is described by its header and
\* by the length and amplitude of its sample sequence.
\* ------------------------------------------------------------------------
Absent == [exists |-> FALSE, is_wav |-> FALSE, sr |-> 0, channels |-> 0,
           bitdepth |-> 0, len |-> 0, amp |-> 0, origin |-> <<>>]

WavFile(sr, ch, bits, len, amp) ==
    [exists |-> TRUE, is_wav |-> TRUE, sr |-> sr, channels |-> ch,
     bitdepth |-> bits, len |-> len, amp |-> amp, origin |-> <<>>]

\* utils.peak_normalization (not part of this file): the samples are
\* scaled so that the largest magnitude becomes PeakTarget
PeakTarget == 32766

peak_normalization(w) ==
    LET peak == SeqMaxAbs(w)
    IN [j \in 1..Len(w) |-> TruncDiv(w[j] * PeakTarget, peak)]

Dirs == {"a", "b", "out"}

Names == {"w.wav", "x.wav", "y.wav", "z.wav"}

Paths == Dirs \X Names

InitialFS ==
    [p \in Paths |->
        CASE p = <<"a", "x.wav">> -> WavFile(SR, 1, 16, 5, 1000)
          [] p = <<"b", "x.wav">> -> WavFile(SR, 1, 16, 517, 20000)
          [] p = <<"a", "w.wav">> -> WavFile(SR, 1, 16, 300, PeakTarget)
          [] p = <<"a", "y.wav">> -> WavFile(8000, 1, 16, 5, 1000)
          [] p = <<"b", "y.wav">> -> WavFile(SR, 2, 16, 5, 1000)
          [] p = <<"a", "z.wav">> -> WavFile(SR, 1, 8, 5, 100)
          [] p = <<"b", "z.wav">> ->
                 [Absent EXCEPT !.exists = TRUE]
          [] OTHER -> Absent]

\* the paths a list of input files may name: the files of the two input
\* directories and one path at which nothing exists
InputPaths == {p \in Paths : p[1] \in {"a", "b"} /\ InitialFS[p].exists}
              \cup {<<"out", "x.wav">>}

\* the sample sequence stored in a file
RawSamples(f) ==
    [j \in 1..f.len |->
        CASE j % 3 = 1 -> f.amp
          [] j % 3 = 2 -> -(f.amp \div 2)
          [] OTHER -> 0]

\* ------------------------------------------------------------------------
\* decode_model outcomes and the messages of the Process pipe
\* ------------------------------------------------------------------------
\* Exception classes whose constructor accepts one positional argument
UnaryErrors == {"RuntimeError"}

\* Exception classes whose constructor requires more than one argument
NaryErrors == {"UnicodeDecodeError"}

\* classes derived from BaseException but not from Exception
BaseErrors == {"SystemExit"}

NoTb == [proc |-> 0, size |-> 0]

\* the message "None"
NoneMsg == [isNone |-> TRUE, type |-> "", tb |-> NoTb]

ErrMsg(type, tb) == [isNone |-> FALSE, type |-> type, tb |-> tb]

\* size of a pickled message on the pipe
MsgSize(m) == IF m.isNone THEN 1 ELSE m.tb.size

\* "no exception is propagating"; at names the step that raised
NoExc == [type |-> "none", arg |-> NoTb, at |-> ""]

Raise(type, arg, at) == [type |-> type, arg |-> arg, at |-> at]

\* type(e)(tb): the class of e called with the trace text as only argument
ReRaise(m) ==
    IF m.type \in NaryErrors
    THEN Raise("TypeError", NoTb, "gateway")
    ELSE Raise(m.type, m.tb, "gateway")

\* Process.exception (lines 101-105) on a process whose parent end of the
\* pipe holds the messages pp and whose _exception attribute is cache:
\* <<value returned, messages left, _exception afterwards>>
exception(pp, cache) ==
    IF pp # <<>>
    THEN <<Head(pp), Tail(pp), Head(pp)>>
    ELSE <<cache, pp, cache>>

\* ------------------------------------------------------------------------
\* Pure functions of denoise_wav
\* ------------------------------------------------------------------------
\* the value of --truncate_minutes is num/TruncDen minutes, so that at
\* 16 kHz truncate_minutes*rate*60 is num/2 samples (the product is taken
\* exactly, without the rounding of floating point)
TruncDen == 2 * SR * 60

\* chunk lengths 0, 200, 256 and 300 at 16 kHz
TruncNums == {1, 401, 512, 600}

\* line 156: int(truncate_minutes*rate*60)
ChunkLength(num, rate) == TruncDiv(num * rate * 60, TruncDen)

\* lines 164-165
ChunkBegin(k, cl) == (k - 1) * cl

ChunkEnd(k, cl) == ChunkBegin(k, cl) + cl

\* w[b:e] of a numpy array, 0 <= b <= e
Slice(w, b, e) == SubSeq(w, b + 1, Min(e, Len(w)))

\* ndarray.astype(np.int16)
Int16(x) == ((x + 32768) % 65536) - 32768

\* a segment of data_se: pass-through samples, or the reconstruction of
\* the chunk [bi, ei) whose sample values the estimator determines
PassSegment(b, e, samples) ==
    [kind |-> "pass", bi |-> b, ei |-> e, samples |-> samples]

ReconSegment(b, e) ==
    [kind |-> "recon", bi |-> b, ei |-> e, samples |-> <<>>]

SegLen(seg) == IF seg.kind = "pass" THEN Len(seg.samples)
               ELSE seg.ei - seg.bi

RECURSIVE TotalLen(_)
TotalLen(ss) == IF ss = <<>> THEN 0 ELSE SegLen(Head(ss)) + TotalLen(Tail(ss))

\* line 238
CastSegment(seg) ==
    [seg EXCEPT !.samples = [j \in 1..Len(seg.samples) |-> Int16(seg.samples[j])]]

\* the file that wav_io.write stores for the input src
Enhanced(src, segs) ==
    [exists |-> TRUE, is_wav |-> TRUE, sr |-> SR, channels |-> NUM_CHANNELS,
     bitdepth |-> BITDEPTH, len |-> TotalLen(segs), amp |-> PeakTarget,
     origin |-> src]

\* ------------------------------------------------------------------------
\* State
\* ------------------------------------------------------------------------
VARIABLES
    wav_files,         \* argument of main_denoising: sequence of paths
    output_dir,        \* argument of main_denoising
    truncate_minutes,  \* numerator of the value, over TruncDen
    fs,                \* the files on disk
    pc,                \* position of the parent process
    idx,               \* position in wav_files (1-based; 0 before the loop)
    dest_wav_file,
    wav_data,
    chunk_length,
    total_chunks,
    data_se,
    i,                 \* chunk counter of denoise_wav
    bi,
    ei,
    temp,
    tmp_dir,           \* name of the current temporary directory, 0: none
    tmpdirs,           \* temporary directories that exist
    tmp_files,         \* files in tmp_dir
    next_tmp,          \* names handed out by mkdtemp so far
    exc,               \* exception propagating in the parent
    procs,             \* state of every Process started, by start order
    child_out,         \* outcome of decode_model in the child of p
    pipe,              \* messages sent on the pipe of p and not received
    p_exception,       \* p._exception
    visited,           \* history: indexes of wav_files visited by the loop
    result,            \* history: outcome reported for each file
    writes,            \* history: output files written, [file, dest]
    ops,               \* history: steps taken for the current chunk
    reads,             \* history: values p.exception returned in this chunk
    covered,           \* history: samples of the file put in chunks so far
    raised             \* history: files during which the parent raised

vars == <<wav_files, output_dir, truncate_minutes, fs, pc, idx,
          dest_wav_file, wav_data, chunk_length, total_chunks, data_se, i,
          bi, ei, temp, tmp_dir, tmpdirs, tmp_files, next_tmp, exc, procs,
          child_out, pipe, p_exception, visited, result, writes, ops, reads,
          covered, raised>>

config == <<wav_files, output_dir, truncate_minutes>>

locals == <<dest_wav_file, wav_data, chunk_length, total_chunks, data_se, i,
            bi, ei, temp, covered>>

tmpvars == <<tmp_dir, tmpdirs, tmp_files, next_tmp>>

procvars == <<procs, child_out, pipe, p_exception, reads>>

history == <<visited, result, writes, raised>>

\* injective sequences over S of length 1..n
RECURSIVE FileLists(_, _)
FileLists(S, n) ==
    IF n = 0 THEN {<<>>}
    ELSE LET shorter == FileLists(S, n - 1)
         IN shorter \cup {Append(l, x) : l \in {q \in shorter : Len(q) = n - 1},
                                          x \in S}

Injective(l) == \A a, b \in 1..Len(l) : l[a] = l[b] => a = b

Init ==
    /\ wav_files \in {l \in FileLists(InputPaths, MaxFiles) :
                         Len(l) >= 1 /\ Injective(l)}
    /\ output_dir \in {"out", "a"}
    /\ truncate_minutes \in TruncNums
    /\ fs = InitialFS
    /\ pc = "for_file"
    /\ idx = 0
    /\ dest_wav_file = <<>>
    /\ wav_data = <<>>
    /\ chunk_length = 0
    /\ total_chunks = 0
    /\ data_se = <<>>
    /\ i = 0
    /\ bi = 0
    /\ ei = 0
    /\ temp = <<>>
    /\ tmp_dir = 0
    /\ tmpdirs = {}
    /\ tmp_files = {}
    /\ next_tmp = 0
    /\ exc = NoExc
    /\ procs = <<>>
    /\ child_out = NoneMsg
    /\ pipe = <<>>
    /\ p_exception = NoneMsg
    /\ visited = <<>>
    /\ result = [k \in 1..Len(wav_files) |-> "pending"]
    /\ writes = <<>>
    /\ ops = {}
    /\ reads = <<>>
    /\ covered = 0
    /\ raised = {}

\* ------------------------------------------------------------------------
\* main_denoising: the loop over wav_files (lines 270-301)
\* ------------------------------------------------------------------------
src_wav_file == wav_files[idx]

\* line 270: the loop takes the next file
ForFile ==
    /\ pc = "for_file"
    /\ idx < Len(wav_files)
    /\ idx' = idx + 1
    /\ visited' = Append(visited, idx + 1)
    /\ pc' = "checks"
    /\ UNCHANGED <<config, fs, locals, tmpvars, exc, procvars, result,
                   writes, raised, ops>>

\* line 270: the list is exhausted
ForFileEnd ==
    /\ pc = "for_file"
    /\ idx = Len(wav_files)
    /\ pc' = "done"
    /\ UNCHANGED <<config, fs, idx, locals, tmpvars, exc, procvars, history,
                   ops>>

\* lines 272-288: the reason why a file is refused, "" when it is accepted
CheckFailure(f) ==
    CASE ~f.exists -> "does not exist"
      [] ~f.is_wav -> "is not WAV"
      [] f.sr # SR -> "sample rate"
      [] f.channels # NUM_CHANNELS -> "is not monochannel"
      [] f.bitdepth # BITDEPTH -> "bitdepth"
      [] OTHER -> ""

\* lines 272-288, a check fails: utils.error and continue
CheckSkip ==
    /\ pc = "checks"
    /\ CheckFailure(fs[src_wav_file]) # ""
    /\ result' = [result EXCEPT ![idx] = "skipped"]
    /\ pc' = "for_file"
    /\ UNCHANGED <<config, fs, idx, locals, tmpvars, exc, procvars, visited,
                   writes, raised, ops>>

\* lines 157-158
TotalChunksFloor(size, cl) == size \div cl

TotalChunks(size, cl) == CeilDiv(size, cl)

\* lines 272-288 pass; lines 291-294 and 141-159: denoise_wav is entered,
\* the file is read and normalized and the chunking is computed.  The
\* division of line 158 raises ZeroDivisionError when chunk_length is 0.
DenoiseEnter ==
    /\ pc = "checks"
    /\ CheckFailure(fs[src_wav_file]) = ""
    /\ dest_wav_file' = join(output_dir, basename(src_wav_file))
    /\ LET f == fs[src_wav_file]
           rate == f.sr
           cl == ChunkLength(truncate_minutes, rate)
       IN /\ wav_data' = peak_normalization(RawSamples(f))
          /\ chunk_length' = cl
          /\ IF cl = 0
             THEN /\ exc' = Raise("ZeroDivisionError", NoTb, "chunking")
                  /\ raised' = raised \cup {idx}
                  /\ pc' = "except"
                  /\ total_chunks' = 0
             ELSE /\ total_chunks' = TotalChunks(f.len, cl)
                  /\ pc' = "for_chunk"
                  /\ exc' = NoExc
                  /\ raised' = raised
    /\ data_se' = <<>>
    /\ i' = 0
    /\ bi' = 0
    /\ ei' = 0
    /\ temp' = <<>>
    /\ covered' = 0
    /\ reads' = <<>>
    /\ UNCHANGED <<config, fs, idx, tmpvars, procs, child_out, pipe,
                   p_exception, visited, result, writes, ops>>

\* line 301 (and 274-288): continue with the next file
LoopAborts == "done"

LoopContinues == "for_file"

\* lines 296-301: the handler of main_denoising
Except ==
    /\ pc = "except"
    /\ result' = [result EXCEPT ![idx] = "failed"]
    /\ exc' = NoExc
    /\ pc' = LoopContinues
    /\ UNCHANGED <<config, fs, idx, locals, tmpvars, procvars, visited,
                   writes, raised, ops>>

\* ------------------------------------------------------------------------
\* denoise_wav: the loop over chunks (lines 160-237)
\* ------------------------------------------------------------------------
\* lines 160-161: next chunk, tempfile.mkdtemp()
ForChunk ==
    /\ pc = "for_chunk"
    /\ i < total_chunks
    /\ i' = i + 1
    /\ next_tmp' = next_tmp + 1
    /\ tmp_dir' = next_tmp + 1
    /\ tmpdirs' = tmpdirs \cup {next_tmp + 1}
    /\ tmp_files' = {}
    /\ ops' = {}
    /\ reads' = <<>>
    /\ pc' = "slice"
    /\ UNCHANGED <<config, fs, idx, dest_wav_file, wav_data, chunk_length,
                   total_chunks, data_se, bi, ei, temp, covered, exc,
                   procs, child_out, pipe, p_exception, history>>

\* line 172 without the append
ShortChunkDropped(data, seg) == data

\* line 172: data_se.append(temp)
ShortChunkOutput(data, seg) == Append(data, seg)

\* lines 164-173: the samples of the chunk; a short chunk is appended
\* unchanged and the iteration ends (through the finally clause)
SliceChunk ==
    /\ pc = "slice"
    /\ LET b == ChunkBegin(i, chunk_length)
           e == ChunkEnd(i, chunk_length)
           t == Slice(wav_data, b, e)
       IN /\ bi' = b
          /\ ei' = e
          /\ temp' = t
          /\ covered' = covered + Len(t)
          /\ IF Len(t) < WL2
             THEN /\ data_se' = ShortChunkOutput(data_se, PassSegment(b, e, t))
                  /\ pc' = "finally"
             ELSE /\ data_se' = data_se
                  /\ pc' = "extract"
    /\ UNCHANGED <<config, fs, idx, dest_wav_file, wav_data, chunk_length,
                   total_chunks, i, tmpvars, exc, procvars, history, ops>>

\* lines 176-202: features are extracted and written with the script file
ExtractOk ==
    /\ pc = "extract"
    /\ tmp_files' = tmp_files \cup {"noisy_normed_lps.htk",
                                    "noisy_normed_lps.scp"}
    /\ ops' = ops \cup {"extract", "write"}
    /\ pc' = "start"
    /\ UNCHANGED <<config, fs, idx, locals, tmp_dir, tmpdirs, next_tmp, exc,
                   procvars, history>>

\* lines 176-202 raise
ExtractFail ==
    /\ pc = "extract"
    /\ ops' = ops \cup {"extract"}
    /\ exc' = Raise("Exception", NoTb, "extract")
    /\ raised' = raised \cup {idx}
    /\ pc' = "finally"
    /\ UNCHANGED <<config, fs, idx, locals, tmpvars, procvars, visited,
                   result, writes>>

\* lines 211-214: Process(...) (lines 88-91) and p.start()
Start ==
    /\ pc = "start"
    /\ procs' = Append(procs, "running")
    /\ pipe' = <<>>
    /\ p_exception' = NoneMsg
    /\ child_out' = NoneMsg
    /\ reads' = <<>>
    /\ ops' = ops \cup {"estimator"}
    /\ pc' = "join"
    /\ UNCHANGED <<config, fs, idx, locals, tmpvars, exc, history>>

\* the Process that the variable p of denoise_wav refers to
p == Len(procs)

\* line 215 replaced by a call that does not wait
JoinNoWait(st) == TRUE

\* line 215: p.join() returns when the child has terminated
JoinReturns(st) == st = "exited"

Join ==
    /\ pc = "join"
    /\ JoinReturns(procs[p])
    /\ pc' = "check"
    /\ UNCHANGED <<config, fs, idx, locals, tmpvars, exc, procvars, history,
                   ops>>

\* lines 216-218: p.exception is evaluated by the condition and, when it
\* is true, a second time by the unpacking
CheckException ==
    /\ pc = "check"
    /\ LET r1 == exception(pipe, p_exception)
           r2 == exception(r1[2], r1[3])
       IN IF ~r1[1].isNone
          THEN /\ reads' = <<r1[1], r2[1]>>
               /\ pipe' = r2[2]
               /\ p_exception' = r2[3]
               /\ exc' = ReRaise(r2[1])
               /\ raised' = raised \cup {idx}
               /\ pc' = "finally"
          ELSE /\ reads' = <<r1[1]>>
               /\ pipe' = r1[2]
               /\ p_exception' = r1[3]
               /\ exc' = exc
               /\ raised' = raised
               /\ pc' = "recon"
    /\ UNCHANGED <<config, fs, idx, locals, tmpvars, procs, child_out,
                   visited, result, writes, ops>>

\* lines 221-235: the result is read and the chunk is reconstructed
ReconOk ==
    /\ pc = "recon"
    /\ "irm.mat" \in tmp_files
    /\ data_se' = Append(data_se, ReconSegment(bi, bi + Len(temp)))
    /\ ops' = ops \cup {"reconstruct"}
    /\ pc' = "finally"
    /\ UNCHANGED <<config, fs, idx, dest_wav_file, wav_data, chunk_length,
                   total_chunks, i, bi, ei, temp, covered, tmpvars, exc,
                   procvars, history>>

\* lines 221-235 raise: irm.mat is missing or unusable
ReconFail ==
    /\ pc = "recon"
    /\ exc' = Raise("Exception", NoTb, "reconstruct")
    /\ raised' = raised \cup {idx}
    /\ ops' = ops \cup {"reconstruct"}
    /\ pc' = "finally"
    /\ UNCHANGED <<config, fs, idx, locals, tmpvars, procvars, visited,
                   result, writes>>

\* the rmtree placed after the try statement instead of in a finally clause
ReleasedOnSuccess(dirs, d, e) == IF e = NoExc THEN dirs \ {d} ELSE dirs

\* lines 236-237: shutil.rmtree(tmp_dir) in the finally clause
ReleasedOnExit(dirs, d, e) == dirs \ {d}

\* a try statement that swallows the exception
AfterFinallySwallow(e) == "for_chunk"

\* after the finally clause the pending exception leaves denoise_wav,
\* otherwise the loop of line 160 goes on
AfterFinally(e) == IF e # NoExc THEN "except" ELSE "for_chunk"

Finally ==
    /\ pc = "finally"
    /\ tmpdirs' = ReleasedOnExit(tmpdirs, tmp_dir, exc)
    /\ tmp_files' = {}
    /\ tmp_dir' = 0
    /\ pc' = AfterFinally(exc)
    /\ UNCHANGED <<config, fs, idx, locals, next_tmp, exc, procvars,
                   history, ops>>

\* lines 238-240 and 295: the segments are cast and concatenated, the
\* output file is written, "Finished processing" is printed
Assemble ==
    /\ pc = "for_chunk"
    /\ i = total_chunks
    /\ data_se' = [k \in 1..Len(data_se) |-> CastSegment(data_se[k])]
    /\ IF data_se = <<>>
       THEN /\ exc' = Raise("ValueError", NoTb, "assemble")
            /\ raised' = raised \cup {idx}
            /\ pc' = "except"
            /\ UNCHANGED <<fs, writes, result>>
       ELSE /\ fs' = [fs EXCEPT ![dest_wav_file] =
                          Enhanced(src_wav_file, data_se')]
            /\ writes' = Append(writes, [file |-> idx, dest |-> dest_wav_file])
            /\ result' = [result EXCEPT ![idx] = "finished"]
            /\ exc' = exc
            /\ raised' = raised
            /\ pc' = "for_file"
    /\ UNCHANGED <<config, idx, dest_wav_file, wav_data, chunk_length,
                   total_chunks, i, bi, ei, temp, covered, tmpvars, procvars,
                   visited, ops>>

\* ------------------------------------------------------------------------
\* The child process: Process.run (lines 93-99)
\* ------------------------------------------------------------------------
TbSizes == 1..(PipeCapacity + 1)

\* line 95, decode_model returns: irm.mat is in the directory
ChildReturns ==
    /\ \E c \in DOMAIN procs :
          /\ procs[c] = "running"
          /\ procs' = [procs EXCEPT ![c] = "sending"]
    /\ child_out' = NoneMsg
    /\ tmp_files' = tmp_files \cup {"irm.mat"}
    /\ UNCHANGED <<config, fs, pc, idx, locals, tmp_dir, tmpdirs, next_tmp,
                   exc, pipe, p_exception, reads, history, ops>>

\* lines 95, 97-98: decode_model raises an Exception
ChildRaises ==
    /\ \E c \in DOMAIN procs :
          /\ procs[c] = "running"
          /\ procs' = [procs EXCEPT ![c] = "sending"]
          /\ \E t \in UnaryErrors \cup NaryErrors, n \in TbSizes :
                child_out' = ErrMsg(t, [proc |-> c, size |-> n])
    /\ UNCHANGED <<config, fs, pc, idx, locals, tmpvars, exc, pipe,
                   p_exception, reads, history, ops>>

\* line 95: decode_model ends by a BaseException that run does not catch:
\* the child terminates and nothing is sent
ChildDies ==
    /\ \E c \in DOMAIN procs :
          /\ procs[c] = "running"
          /\ procs' = [procs EXCEPT ![c] = "exited"]
    /\ \E t \in BaseErrors : child_out' = ErrMsg(t, NoTb)
    /\ UNCHANGED <<config, fs, pc, idx, locals, tmpvars, exc, pipe,
                   p_exception, reads, history, ops>>

\* the pipe takes the whole message m while the parent does not receive
CanSend(pp, m) == MsgSize(m) <= PipeCapacity

\* lines 96 and 99: _cconn.send completes and the child terminates
ChildSend ==
    /\ \E c \in DOMAIN procs :
          /\ procs[c] = "sending"
          /\ procs' = [procs EXCEPT ![c] = "exited"]
    /\ CanSend(pipe, child_out)
    /\ pipe' = Append(pipe, child_out)
    /\ UNCHANGED <<config, fs, pc, idx, locals, tmpvars, exc, child_out,
                   p_exception, reads, history, ops>>

Next ==
    \/ ForFile
    \/ ForFileEnd
    \/ CheckSkip
    \/ DenoiseEnter
    \/ Except
    \/ ForChunk
    \/ SliceChunk
    \/ ExtractOk
    \/ ExtractFail
    \/ Start
    \/ Join
    \/ CheckException
    \/ ReconOk
    \/ ReconFail
    \/ Finally
    \/ Assemble
    \/ ChildReturns
    \/ ChildRaises
    \/ ChildDies
    \/ ChildSend

Spec == Init /\ [][Next]_vars

\* ------------------------------------------------------------------------
\* Properties
\* ------------------------------------------------------------------------
NFiles == Len(wav_files)

\* positions of the parent inside the chunk loop after the chunk is taken
AfterSlice == {"extract", "start", "join", "check", "recon", "finally"}

\* processes that have not terminated
Alive == {c \in DOMAIN procs : procs[c] # "exited"}

\* C1: the loop of main_denoising visits the files in list order, every
\* outcome of a file (skipped, failed, finished) returns control to the
\* head of the loop, and at the end every file has been visited and has an
\* outcome.
C1_EveryFileVisitedInOrder ==
    /\ visited = [k \in 1..idx |-> k]
    /\ \A k \in 1..NFiles :
          /\ k < idx => result[k] # "pending"
          /\ k > idx => result[k] = "pending"
          /\ (k = idx /\ result[k] # "pending") => pc = "for_file" \/ pc = "done"
    /\ pc = "done" =>
          /\ idx = NFiles
          /\ \A k \in 1..NFiles : result[k] \in {"skipped", "failed", "finished"}

C1_Witness ==
    /\ pc = "done"
    /\ \E k \in 1..(NFiles - 1) :
          /\ result[k] = "failed"
          /\ k \in raised
          /\ result[k + 1] = "finished"

\* C2: an output file is written only for a file that passed the checks
\* and during whose processing nothing was raised; a skipped or failed
\* file has no write.
C2_NoOutputForSkippedFile ==
    /\ \A w \in 1..Len(writes) :
          /\ writes[w].file \notin raised
          /\ result[writes[w].file] = "finished"
    /\ \A k \in 1..NFiles :
          result[k] \in {"skipped", "failed", "pending"} =>
              \A w \in 1..Len(writes) : writes[w].file # k

C2_Witness ==
    /\ pc = "for_file"
    /\ idx >= 1
    /\ result[idx] = "failed"
    /\ Len(data_se) >= 1
    /\ data_se[1].kind = "recon"
    /\ \A w \in 1..Len(writes) : writes[w].file # idx

\* C3: at most one temporary directory exists at any moment, and none
\* exists outside a chunk iteration: not between iterations, not after
\* denoise_wav returned or raised.
C3_TempDirReleased ==
    /\ Cardinality(tmpdirs) <= 1
    /\ pc \in {"for_file", "checks", "for_chunk", "except", "done"} =>
          tmpdirs = {}

C3_Witness ==
    /\ pc = "except"
    /\ exc.at = "gateway"
    /\ next_tmp >= 2
    /\ tmpdirs = {}

\* C4: after the gateway check, a child that raised an Exception makes the
\* parent raise an error of the same type carrying the child's trace; a
\* child that returned makes the parent raise nothing; both evaluations of
\* p.exception return the same value.
C4_GatewayErrorPreserved ==
    /\ (reads # <<>> /\ ~child_out.isNone /\ child_out.type \notin BaseErrors
            /\ pc \in {"finally", "except"}) =>
          /\ exc.type = child_out.type
          /\ exc.arg = child_out.tb
    /\ (reads # <<>> /\ child_out.isNone) =>
          /\ reads = <<NoneMsg>>
          /\ exc.at # "gateway"
    /\ Len(reads) = 2 => reads[1] = reads[2]

\* C5: at most one estimator process is alive; while one is alive the
\* parent takes no step; no process is started while another is alive; the
\* loop takes the next file only when the current one has an outcome.
C5_StrictlySequential ==
    /\ [](Cardinality(Alive) <= 1)
    /\ [][Alive # {} =>
            <<pc, idx, i, data_se, fs, writes, result, tmpdirs, exc>>' =
            <<pc, idx, i, data_se, fs, writes, result, tmpdirs, exc>>]_vars
    /\ [][Len(procs') > Len(procs) => Alive = {}]_vars
    /\ [][idx' # idx => Alive = {} /\ (idx = 0 \/ result[idx] # "pending")]_vars

C5_Witness ==
    /\ pc = "join"
    /\ Len(procs) >= 2
    /\ procs[Len(procs)] = "running"
    /\ i >= 2

\* C6: with chunk_length = floor(truncate_minutes*60*rate) > 0 there are
\* ceil(L/chunk_length) chunks, chunk i starts at (i-1)*chunk_length, holds
\* the samples from there on, has length chunk_length except the last one
\* which has length L - (total_chunks-1)*chunk_length, and the chunks taken
\* so far cover the buffer from its start without gap or overlap.
C6_ChunksPartitionBuffer ==
    (pc \in AfterSlice \cup {"slice", "for_chunk"} /\ chunk_length > 0) =>
        LET L == Len(wav_data)
        IN /\ chunk_length * TruncDen <= truncate_minutes * 60 * SR
           /\ truncate_minutes * 60 * SR < (chunk_length + 1) * TruncDen
           /\ (total_chunks - 1) * chunk_length < L
           /\ L <= total_chunks * chunk_length
           /\ pc \in AfterSlice =>
                 /\ i \in 1..total_chunks
                 /\ bi = (i - 1) * chunk_length
                 /\ Len(temp) = IF i < total_chunks THEN chunk_length
                                ELSE L - (total_chunks - 1) * chunk_length
                 /\ temp = [j \in 1..Len(temp) |-> wav_data[bi + j]]
                 /\ covered = bi + Len(temp)
           /\ pc = "for_chunk" =>
                 covered = IF i < total_chunks THEN i * chunk_length ELSE L

C6_Witness ==
    /\ pc = "finally"
    /\ total_chunks = 3
    /\ i = 3
    /\ Len(temp) > 0
    /\ Len(temp) < chunk_length
    /\ covered = Len(wav_data)

\* the samples of the file src_wav_file in the range of the current chunk
InputRange == [j \in 1..Len(temp) |-> RawSamples(fs[src_wav_file])[bi + j]]

C8_ZeroChunkLengthIsConfigurationError ==
    truncate_minutes * 60 * SR < TruncDen =>
        /\ \A k \in 1..NFiles : result[k] # "failed"
        /\ next_tmp = 0
        /\ procs = <<>>
        /\ writes = <<>>

\* C9: the gateway step never blocks forever: while the parent waits in
\* p.join(), either the join can return or the child process can take a
\* step.
C9_GatewayNeverBlocks ==
    pc = "join" =>
        \/ ENABLED Join
        \/ ENABLED (ChildReturns \/ ChildRaises \/ ChildDies \/ ChildSend)

\* C10: at the end every successfully processed input has its own output
\* at output_dir/basename(input), and no input file has been overwritten.
C10_OutputsOneToOne ==
    pc = "done" =>
        /\ \A k \in 1..NFiles :
              result[k] = "finished" =>
                  fs[<<output_dir, wav_files[k][2]>>].origin = wav_files[k]
        /\ \A k \in 1..NFiles : fs[wav_files[k]].origin = <<>>

====
